---------------------------- MODULE Spec2Model ----------------------------
(***************************************************************************)
(* cel-playground: two command line entry points that evaluate CEL         *)
(* expressions against a CloudEvent.                                       *)
(*                                                                         *)
(*   src/yaml.go          template mode: -e is a YAML mapping whose string *)
(*                        values may hold $(...) placeholders              *)
(*   src/unnamed/part_000 single mode: -e is one expression                *)
(*                                                                         *)
(* Text is a sequence of lexemes.  "$", "(", ")", "q" (a double quote) and *)
(* "NL" (a line feed) are single characters; the other lexemes are runs of *)
(* characters that hold none of these at a place where the regular         *)
(* expression or the trims of yaml.go could see it.                        *)
(***************************************************************************)
EXTENDS Integers, Sequences, FiniteSets, TLC

\* Number of keys of the template document.
MaxKeys == 2
\* Longest argument list handed to a function binding.
MaxArgs == 4

Keys == 1..MaxKeys

(***************************************************************************)
(* strings, regexp, fmt                                                    *)
(***************************************************************************)

\* strings.HasPrefix / strings.HasSuffix
HasPrefix(str, p) == Len(str) >= Len(p) /\ SubSeq(str, 1, Len(p)) = p
HasSuffix(str, p) ==
    Len(str) >= Len(p) /\ SubSeq(str, Len(str) - Len(p) + 1, Len(str)) = p

\* strings.TrimPrefix(s, "$("): s without the prefix, or s itself.
TrimPrefix(str, p) ==
    IF HasPrefix(str, p) THEN SubSeq(str, Len(p) + 1, Len(str)) ELSE str

\* strings.TrimSuffix(s, ")")
TrimSuffix(str, p) ==
    IF HasSuffix(str, p) THEN SubSeq(str, 1, Len(str) - Len(p)) ELSE str

\* A looser match a slip would produce: any "$" makes a placeholder.
RegexpMatchDollar(str) == \E i \in 1..Len(str) : str[i] = "$"

\* regexp.Match(`\$\(.*\)`, s): unanchored; "." matches no line feed.
RegexpMatch(str) ==
    \E i \in 1..(Len(str) - 1) :
        /\ str[i] = "$"
        /\ str[i + 1] = "("
        /\ \E j \in (i + 2)..Len(str) :
              /\ str[j] = ")"
              /\ \A m \in (i + 2)..(j - 1) : str[m] # "NL"

Digits == {"0", "1", "2", "3", "4", "5", "6", "7", "8", "9"}

RECURSIVE SkipDigits(_)
\* fmt: the width of a verb is read and dropped.
SkipDigits(f) ==
    IF f # <<>> /\ Head(f) \in Digits THEN SkipDigits(Tail(f)) ELSE f

RECURSIVE Sprintf(_)
\* fmt.Sprintf(format) with no operands: "%%" prints "%", a verb prints
\* "%!v(MISSING)", a trailing "%" prints "%!(NOVERB)".
Sprintf(f) ==
    IF f = <<>> THEN <<>>
    ELSE IF Head(f) # "%" THEN <<Head(f)>> \o Sprintf(Tail(f))
    ELSE LET rest == SkipDigits(Tail(f))
         IN  IF rest = <<>> THEN <<"%!(NOVERB)">>
             ELSE IF Head(rest) = "%" THEN <<"%">> \o Sprintf(Tail(rest))
             ELSE <<"%!", Head(rest), "(MISSING)">> \o Sprintf(Tail(rest))

(***************************************************************************)
(* values: native Go values and CEL values, each a kind and a payload text *)
(***************************************************************************)

Nil == [kind |-> "nil", val |-> <<>>]
GoString(t) == [kind |-> "string", val |-> t]
GoInt(t) == [kind |-> "int", val |-> t]
GoStruct(t) == [kind |-> "struct", val |-> t]
CelBool(b) == [kind |-> "types.Bool", val |-> IF b THEN <<"true">> ELSE <<"false">>]
CelString(t) == [kind |-> "types.String", val |-> t]
CelInt(t) == [kind |-> "types.Int", val |-> t]
CelMap(t) == [kind |-> "types.Map", val |-> t]

\* types.NewErr(format string, args...): the text is formatted by fmt.
NewErr(format) == [kind |-> "types.Err", val |-> Sprintf(format)]

IsError(v) == v.kind = "types.Err"

\* The string form of a result, as fmt.Sprint(out) would store it.
StringForm(v) == [kind |-> "string", val |-> v.val]

\* ref.Val.Value(): the native value under a CEL value, its type kept.
Value(v) ==
    [kind |-> CASE v.kind = "types.Bool" -> "bool"
                [] v.kind = "types.String" -> "string"
                [] v.kind = "types.Int" -> "int64"
                [] v.kind = "types.Map" -> "map[string]interface{}"
                [] OTHER -> "error",
     val |-> v.val]

\* types.DefaultTypeAdapter.NativeToValue on the natives bound at Eval.
NativeToValue(n) ==
    CASE n.kind = "string" -> CelString(n.val)
      [] n.kind = "bool" -> [kind |-> "types.Bool", val |-> n.val]
      [] n.kind = "int" -> CelInt(n.val)
      [] OTHER -> CelMap(n.val)

\* dynamicValue: json.Marshal then json.Unmarshal into a generic map, then
\* NativeToValue.  A *github.RepositoryCommit or *github.PullRequest
\* always marshals to a JSON object, so neither error return is taken.
dynamicValue(i) == NativeToValue([kind |-> "map[string]interface{}", val |-> i.val])

(***************************************************************************)
(* cel-go, as far as the two programs use it                               *)
(***************************************************************************)

\* Lexemes made of letters only: a run of them is one identifier.
Words == {"true", "cat", "x", "a"}

\* commit("o","r","sha" without its closing parenthesis.
CommitHead == "commit(o,r,sha"

NoAst == [node |-> "none", text |-> <<>>]

IsWordRun(t) == t # <<>> /\ \A i \in 1..Len(t) : t[i] \in Words

IsStringLit(t) ==
    /\ Len(t) >= 2
    /\ t[1] = "q"
    /\ t[Len(t)] = "q"
    /\ \A i \in 2..(Len(t) - 1) : t[i] \notin {"q", "NL"}

RECURSIVE Parse(_)
\* env.Parse(text): the abstract syntax, or the issues of a syntax error.
Parse(t) ==
    IF t = <<"true">>
    THEN [ok |-> TRUE, ast |-> [node |-> "lit", text |-> t], err |-> <<>>]
    ELSE IF IsWordRun(t)
    THEN [ok |-> TRUE, ast |-> [node |-> "ident", text |-> t], err |-> <<>>]
    ELSE IF t = <<"ce.type">>
    THEN [ok |-> TRUE, ast |-> [node |-> "select", text |-> t], err |-> <<>>]
    ELSE IF IsStringLit(t)
    THEN [ok |-> TRUE,
          ast |-> [node |-> "str", text |-> SubSeq(t, 2, Len(t) - 1)],
          err |-> <<>>]
    ELSE IF t = <<CommitHead, ")">>
    THEN [ok |-> TRUE,
          ast |-> [node |-> "call", text |-> <<"commit", "o", "r", "sha">>],
          err |-> <<>>]
    ELSE IF Len(t) >= 2 /\ t[1] = "(" /\ t[Len(t)] = ")"
    THEN Parse(SubSeq(t, 2, Len(t) - 1))
    ELSE [ok |-> FALSE, ast |-> NoAst, err |-> <<"Syntax error">>]

\* cel.Declarations(...) of yaml.go: ce, cat, commit, pr, collaborator.
TemplateDecls == {"ce", "cat", "commit", "pr", "collaborator"}

\* cel.Declarations(...) of the single mode: ce, commit, collaborator.
SingleDecls == {"ce", "commit", "collaborator"}

\* env.Check(ast): every reference resolves against the declarations.
Check(ast, decls) ==
    LET name == CASE ast.node = "ident" -> ast.text
                  [] ast.node = "select" -> <<"ce">>
                  [] ast.node = "call" -> <<ast.text[1]>>
                  [] OTHER -> <<>>
        declared == name = <<>> \/ (Len(name) = 1 /\ name[1] \in decls)
    IN  [ok |-> declared,
         err |-> IF declared THEN <<>> ELSE <<"undeclared reference">>]

\* cel.Functions(...) of yaml.go, by Operator.
TemplateFuncs == <<"commit", "pr", "collaborator">>

\* cel.Functions(...) of the single mode.
SingleFuncs == <<"commit", "collaborator">>

\* env.Program(ast, funcs): the dispatcher refuses an overload registered
\* twice; nothing else of a checked expression can fail here.
Program(fs) ==
    LET dup == \E i, j \in 1..Len(fs) : i # j /\ fs[i] = fs[j]
    IN  [ok |-> ~dup, err |-> IF dup THEN <<"overload already exists">> ELSE <<>>]

(***************************************************************************)
(* the function bindings                                                   *)
(***************************************************************************)

\* A looser arity test a slip would produce.
ArityAtLeast(values) == Len(values) >= 3

\* if len(values) != 3 { return types.NewErr("invalid args") }
ArityOK(values) == Len(values) = 3

\* The client call behind each Operator.
Api(op) ==
    CASE op = "commit" -> "Repositories.GetCommit"
      [] op = "pr" -> "PullRequests.Get"
      [] OTHER -> "Repositories.IsCollaborator"

\* values[i].Value().(string) and, for pr, values[2].Value().(int64):
\* a failed type assertion panics.
AssertionsHold(op, values) ==
    /\ values[1].kind = "types.String"
    /\ values[2].kind = "types.String"
    /\ values[3].kind = (IF op = "pr" THEN "types.Int" ELSE "types.String")

\* The Function of one functions.Overload: the value it returns, whether it
\* panicked, and the requests it sent to the host.
Binding(op, values, host) ==
    IF ~ArityOK(values)
    THEN [panic |-> FALSE, res |-> NewErr(<<"invalid args">>), sent |-> <<>>]
    ELSE IF ~AssertionsHold(op, values)
    THEN [panic |-> TRUE, res |-> Nil, sent |-> <<>>]
    ELSE LET req == [api |-> Api(op),
                     args |-> <<values[1].val, values[2].val, values[3].val>>]
         IN  [panic |-> FALSE,
              res |-> IF ~host.ok THEN NewErr(host.msg)
                      ELSE IF op = "collaborator" THEN CelBool(TRUE)
                      ELSE dynamicValue(GoStruct(<<Api(op)>> \o req.args)),
              sent |-> <<req>>]

\* Program.Eval(vars): the result, the error Eval returns with it, the
\* failure domain of that error, and the requests sent meanwhile.
Eval(ast, vars, host) ==
    CASE ast.node = "lit" ->
            [out |-> CelBool(TRUE), err |-> FALSE, domain |-> "none", sent |-> <<>>]
      [] ast.node = "str" ->
            [out |-> CelString(ast.text), err |-> FALSE, domain |-> "none",
             sent |-> <<>>]
      [] ast.node = "ident" ->
            [out |-> NativeToValue(vars.cat), err |-> FALSE, domain |-> "none",
             sent |-> <<>>]
      [] ast.node = "select" ->
            IF vars.ce.val = <<>>
            THEN [out |-> NewErr(<<"no such key: type">>), err |-> TRUE,
                  domain |-> "data", sent |-> <<>>]
            ELSE [out |-> CelString(<<vars.ce.val[2]>>), err |-> FALSE,
                  domain |-> "none", sent |-> <<>>]
      [] OTHER ->
            LET r == Binding(ast.text[1],
                             <<CelString(<<ast.text[2]>>), CelString(<<ast.text[3]>>),
                               CelString(<<ast.text[4]>>)>>,
                             host)
            IN  [out |-> r.res, err |-> IsError(r.res),
                 domain |-> IF IsError(r.res) THEN "external" ELSE "none",
                 sent |-> r.sent]

(***************************************************************************)
(* inputs                                                                  *)
(***************************************************************************)

\* json.Unmarshal([]byte(*ceJSON), &cloudEvent) on the three event texts:
\* not JSON, {"type":"com.example.someevent"}, {}.
JsonUnmarshal(text) ==
    [err |-> text = "malformed",
     msg |-> IF text = "malformed" THEN <<"invalid character">> ELSE <<>>,
     val |-> IF text = "typed"
             THEN [kind |-> "map[string]interface{}",
                   val |-> <<"type", "com.example.someevent">>]
             ELSE IF text = "untyped"
             THEN [kind |-> "map[string]interface{}", val |-> <<>>]
             ELSE Nil]

EventTexts == {"malformed", "typed", "untyped"}

\* yaml.Unmarshal([]byte(*expr), &d)
YamlUnmarshal(y) ==
    [err |-> ~y.ok, msg |-> IF y.ok THEN <<>> ELSE <<"yaml: did not find">>,
     val |-> y.doc]

\* The values a template document is built from.
TemplateValues ==
    { GoInt(<<"5">>),
      GoString(<<"a">>),
      GoString(<<"$", "(", "true", ")">>),
      GoString(<<"$", "(", "cat", ")">>),
      GoString(<<"$", "(", "x", ")">>),
      GoString(<<"$", "(", ")">>),
      GoString(<<"$", "(", "true">>),
      GoString(<<"$", "(", "NL", "true", ")">>),
      GoString(<<"a", "$", "(", "true", ")">>),
      GoString(<<"$", "(", "true", ")", "a">>),
      GoString(<<"$", "(", "true", ")", "$", "(", "cat", ")">>),
      GoString(<<"$", "(", "q", "$", "(", "cat", ")", "q", ")">>),
      GoString(<<"q", "$", "(", "cat", ")", "q">>),
      GoString(<<"$", "(", CommitHead, ")", ")">>),
      GoString(<<"$", "(", "ce.type", ")">>) }

TemplateTexts ==
    {[ok |-> FALSE, doc |-> <<>>]}
        \cup {[ok |-> TRUE, doc |-> f] : f \in [Keys -> TemplateValues]}

\* The expressions of the single mode.
SingleExprs ==
    { <<"true">>, <<"cat">>, <<"x">>, <<>>, <<"ce.type">>,
      <<CommitHead, ")">>, <<"q", "a", "q">>, <<"(", "true", ")">> }

\* What the source control host answers: the object asked for, or a failure
\* with its message.
Hosts ==
    {[ok |-> TRUE, msg |-> <<>>]}
        \cup {[ok |-> FALSE, msg |-> m] :
                m \in {<<"4", "0", "4">>, <<"a", "%", "2", "0", "b">>}}

ArgValues == {CelString(<<"o">>), CelInt(<<"7">>)}

ArgLists == UNION {[1..n -> ArgValues] : n \in 0..MaxArgs}

NoCall == [op |-> "none", args |-> <<>>]

NoDiag == [label |-> "none", msg |-> <<>>]

(***************************************************************************)
(* state                                                                   *)
(***************************************************************************)

VARIABLES
    mode,        \* "template" (yaml.go), "single", or "binding"
    expr,        \* flag -e
    ceJSON,      \* flag -ce
    gh,          \* the host behind github.NewClient(nil)
    call,        \* binding mode: the Operator called and its values
    pc,          \* the position in main
    cloudEvent,  \* var cloudEvent map[string]interface{}
    d,           \* the template mapping
    visited,     \* the keys the range loop has produced
    k,           \* the loop variable
    s,           \* the expression text
    p,           \* the syntax tree
    printed,     \* the "out:" lines
    diag,        \* the line log.Fatal printed
    exit,        \* the exit status, -1 while running
    stages,      \* per expression: the stages run, with their success
    handed,      \* per expression: the texts given to Parse
    results,     \* per expression: the values Eval returned
    lookups,     \* the requests sent to the host
    ceCount,     \* how often the event was deserialized
    failure,     \* the failure domain of the fatal error
    callRes,     \* binding mode: what the Function returned
    run,         \* 1, or 2 when the command was started again
    prev         \* the outcome of run 1

inputs == <<mode, expr, ceJSON, gh, call>>

locals == <<pc, cloudEvent, d, visited, k, s, p, printed, diag, exit, stages,
            handed, results, lookups, ceCount, failure, callRes>>

vars == <<inputs, locals, run, prev>>

NoOutcome == [exit |-> -1, diag |-> NoDiag, printed |-> <<>>, sent |-> {}]

\* The state main starts in.
Fresh ==
    /\ pc = "start"
    /\ cloudEvent = Nil
    /\ d = <<>>
    /\ visited = {}
    /\ k = 0
    /\ s = <<>>
    /\ p = NoAst
    /\ printed = <<>>
    /\ diag = NoDiag
    /\ exit = -1
    /\ stages = [key \in Keys |-> <<>>]
    /\ handed = [key \in Keys |-> <<>>]
    /\ results = [key \in Keys |-> <<>>]
    /\ lookups = <<>>
    /\ ceCount = 0
    /\ failure = "none"
    /\ callRes = [panic |-> FALSE, res |-> Nil, sent |-> <<>>]

Init ==
    /\ \/ /\ mode = "template"
          /\ expr \in TemplateTexts
          /\ ceJSON \in EventTexts
          /\ gh \in Hosts
          /\ call = NoCall
       \/ /\ mode = "single"
          /\ expr \in SingleExprs
          /\ ceJSON \in EventTexts
          /\ gh \in Hosts
          /\ call = NoCall
       \/ /\ mode = "binding"
          /\ expr = <<>>
          /\ ceJSON = "typed"
          /\ gh \in Hosts
          /\ call \in [op : {"commit", "pr", "collaborator"}, args : ArgLists]
    /\ Fresh
    /\ run = 1
    /\ prev = NoOutcome

\* The failure domains of a run.
Domains == {"input", "template", "parse", "check", "program", "data", "external"}

\* What the program itself puts before the error text of each domain:
\* log.Fatalf("json parse error: %s\n", err), log.Fatalln(err),
\* log.Fatalln(iss.Err()), log.Fatalf("program creation error: %s\n", err),
\* log.Fatalf("runtime error: %s\n", err).
DiagLabel(domain) ==
    CASE domain = "input" -> "json parse error"
      [] domain = "program" -> "program creation error"
      [] domain \in {"data", "external"} -> "runtime error"
      [] OTHER -> ""

\* log.Fatalf / log.Fatalln: print the line, exit with status 1.
Fatal(msg, domain) ==
    /\ diag' = [label |-> DiagLabel(domain), msg |-> msg]
    /\ failure' = domain
    /\ exit' = 1

NotFailed == UNCHANGED <<diag, failure, exit>>

Log(key, stage, ok) ==
    stages' = [stages EXCEPT ![key] = Append(@, [stage |-> stage, ok |-> ok])]

\* The requests of one Eval, with the expression that sent them.
Sent(key, reqs) ==
    [i \in 1..Len(reqs) |-> [key |-> key, api |-> reqs[i].api, args |-> reqs[i].args]]

(***************************************************************************)
(* template mode: main of yaml.go                                          *)
(***************************************************************************)

\* The event error logged but not fatal.
T_AfterEventAlways(err) == "yaml"
\* if err := json.Unmarshal(...); err != nil { log.Fatalf("json parse error") }
T_AfterEvent(err) == IF err THEN "fatal" ELSE "yaml"

T_UnmarshalEvent ==
    /\ mode = "template"
    /\ pc = "start"
    /\ LET r == JsonUnmarshal(ceJSON)
       IN  /\ ceCount' = ceCount + 1
           /\ cloudEvent' = r.val
           /\ pc' = T_AfterEvent(r.err)
           /\ IF r.err THEN Fatal(r.msg, "input") ELSE NotFailed
    /\ UNCHANGED <<inputs, d, visited, k, s, p, printed, stages, handed, results,
                   lookups, callRes, run, prev>>

\* d := map[interface{}]interface{}{}; yaml.Unmarshal; log.Fatalln(err)
T_UnmarshalTemplate ==
    /\ mode = "template"
    /\ pc = "yaml"
    /\ LET r == YamlUnmarshal(expr)
       IN  /\ d' = r.val
           /\ pc' = IF r.err THEN "fatal" ELSE "range"
           /\ IF r.err THEN Fatal(r.msg, "template") ELSE NotFailed
    /\ UNCHANGED <<inputs, cloudEvent, visited, k, s, p, printed, stages, handed,
                   results, lookups, ceCount, callRes, run, prev>>

\* A skip test that forgets the pattern.
SkipsNonString(v) == v.kind # "string"
\* s, ok := d[k].(string); if !ok { continue }
\* if ok, err := regexp.Match(...); !ok || err != nil { continue }
Skips(v) == v.kind # "string" \/ ~RegexpMatch(v.val)

\* break in place of continue: the loop is over.
Break(seen, key) == Keys
\* continue: on to the next key the range produces.
Continue(seen, key) == seen \cup {key}

\* s = strings.TrimPrefix(s, "$("); s = strings.TrimSuffix(s, ")")
Strip(str) == TrimSuffix(TrimPrefix(str, <<"$", "(">>), <<")">>)

\* One iteration of for k, _ := range d up to the call of e.Parse: the
\* range produces each key once, in an order that is not specified.
T_Range(key) ==
    /\ mode = "template"
    /\ pc = "range"
    /\ key \in Keys \ visited
    /\ IF Skips(d[key])
       THEN /\ visited' = Continue(visited, key)
            /\ UNCHANGED <<pc, k, s>>
       ELSE /\ visited' = visited \cup {key}
            /\ k' = key
            /\ s' = Strip(d[key].val)
            /\ pc' = "parse"
    /\ UNCHANGED <<inputs, cloudEvent, d, p, printed, diag, exit, stages, handed,
                   results, lookups, ceCount, failure, callRes, run, prev>>

\* The issues of Parse printed, the run going on.
T_AfterParseAlways(ok) == "check"
\* if iss != nil && iss.Err() != nil { log.Fatalln(iss.Err()) }
T_AfterParse(ok) == IF ok THEN "check" ELSE "fatal"

\* p, iss := e.Parse(s)
T_Parse ==
    /\ mode = "template"
    /\ pc = "parse"
    /\ LET r == Parse(s)
       IN  /\ Log(k, "Parse", r.ok)
           /\ handed' = [handed EXCEPT ![k] = Append(@, s)]
           /\ p' = r.ast
           /\ pc' = T_AfterParse(r.ok)
           /\ IF r.ok THEN NotFailed ELSE Fatal(r.err, "parse")
    /\ UNCHANGED <<inputs, cloudEvent, d, visited, k, s, printed, results, lookups,
                   ceCount, callRes, run, prev>>

\* c, iss := e.Check(p)
T_Check ==
    /\ mode = "template"
    /\ pc = "check"
    /\ LET r == Check(p, TemplateDecls)
       IN  /\ Log(k, "Check", r.ok)
           /\ pc' = IF r.ok THEN "program" ELSE "fatal"
           /\ IF r.ok THEN NotFailed ELSE Fatal(r.err, "check")
    /\ UNCHANGED <<inputs, cloudEvent, d, visited, k, s, p, printed, handed, results,
                   lookups, ceCount, callRes, run, prev>>

\* prg, err := e.Program(c, funcs)
T_Program ==
    /\ mode = "template"
    /\ pc = "program"
    /\ LET r == Program(TemplateFuncs)
       IN  /\ Log(k, "Program", r.ok)
           /\ pc' = IF r.ok THEN "eval" ELSE "fatal"
           /\ IF r.ok THEN NotFailed
              ELSE Fatal(r.err, "program")
    /\ UNCHANGED <<inputs, cloudEvent, d, visited, k, s, p, printed, handed, results,
                   lookups, ceCount, callRes, run, prev>>

\* The runtime error printed, the run going on.
T_AfterEvalAlways(err) == "range"
\* if err != nil { log.Fatalf("runtime error: %s\n", err) }
T_AfterEval(err) == IF err THEN "fatal" ELSE "range"

\* out, _, err := prg.Eval(...); d[k] = out.Value()
T_Eval ==
    /\ mode = "template"
    /\ pc = "eval"
    /\ LET r == Eval(p, [ce |-> cloudEvent, cat |-> GoString(<<"<cat emoji>">>)], gh)
       IN  /\ Log(k, "Eval", ~r.err)
           /\ results' = [results EXCEPT ![k] = Append(@, r.out)]
           /\ lookups' = lookups \o Sent(k, r.sent)
           /\ pc' = T_AfterEval(r.err)
           /\ d' = IF pc' = "fatal" THEN d ELSE [d EXCEPT ![k] = Value(r.out)]
           /\ IF r.err THEN Fatal(r.out.val, r.domain)
              ELSE NotFailed
    /\ UNCHANGED <<inputs, cloudEvent, visited, k, s, p, printed, handed, ceCount,
                   callRes, run, prev>>

\* log.Println("out: ", d), and main returns.
T_PrintOut ==
    /\ mode = "template"
    /\ pc = "range"
    /\ visited = Keys
    /\ printed' = Append(printed, d)
    /\ pc' = "done"
    /\ exit' = 0
    /\ UNCHANGED <<inputs, cloudEvent, d, visited, k, s, p, diag, stages, handed,
                   results, lookups, ceCount, failure, callRes, run, prev>>

(***************************************************************************)
(* single mode: main of src/unnamed/part_000                               *)
(* The one expression is expression 1 of stages, handed and results.       *)
(***************************************************************************)

\* p, iss := e.Parse(*expr); cel.AstToParsedExpr(p) cannot fail on a
\* parsed tree.
S_Parse ==
    /\ mode = "single"
    /\ pc = "start"
    /\ LET r == Parse(expr)
       IN  /\ Log(1, "Parse", r.ok)
           /\ handed' = [handed EXCEPT ![1] = Append(@, expr)]
           /\ s' = expr
           /\ p' = r.ast
           /\ pc' = IF r.ok THEN "check" ELSE "fatal"
           /\ IF r.ok THEN NotFailed ELSE Fatal(r.err, "parse")
    /\ UNCHANGED <<inputs, cloudEvent, d, visited, k, printed, results, lookups,
                   ceCount, callRes, run, prev>>

\* c, iss := e.Check(p); cel.AstToCheckedExpr(c) cannot fail on a checked
\* tree.
S_Check ==
    /\ mode = "single"
    /\ pc = "check"
    /\ LET r == Check(p, SingleDecls)
       IN  /\ Log(1, "Check", r.ok)
           /\ pc' = IF r.ok THEN "program" ELSE "fatal"
           /\ IF r.ok THEN NotFailed ELSE Fatal(r.err, "check")
    /\ UNCHANGED <<inputs, cloudEvent, d, visited, k, s, p, printed, handed, results,
                   lookups, ceCount, callRes, run, prev>>

\* prg, err := e.Program(c, funcs)
S_Program ==
    /\ mode = "single"
    /\ pc = "program"
    /\ LET r == Program(SingleFuncs)
       IN  /\ Log(1, "Program", r.ok)
           /\ pc' = IF r.ok THEN "json" ELSE "fatal"
           /\ IF r.ok THEN NotFailed
              ELSE Fatal(r.err, "program")
    /\ UNCHANGED <<inputs, cloudEvent, d, visited, k, s, p, printed, handed, results,
                   lookups, ceCount, callRes, run, prev>>

\* json.Unmarshal([]byte(*ceJSON), &cloudEvent), after the program is built
S_UnmarshalEvent ==
    /\ mode = "single"
    /\ pc = "json"
    /\ LET r == JsonUnmarshal(ceJSON)
       IN  /\ ceCount' = ceCount + 1
           /\ cloudEvent' = r.val
           /\ pc' = IF r.err THEN "fatal" ELSE "eval"
           /\ IF r.err THEN Fatal(r.msg, "input") ELSE NotFailed
    /\ UNCHANGED <<inputs, d, visited, k, s, p, printed, stages, handed, results,
                   lookups, callRes, run, prev>>

\* out, _, err := prg.Eval(...); fmt.Printf("out: %#v\n", out)
S_Eval ==
    /\ mode = "single"
    /\ pc = "eval"
    /\ LET r == Eval(p, [ce |-> cloudEvent], gh)
       IN  /\ Log(1, "Eval", ~r.err)
           /\ results' = [results EXCEPT ![1] = Append(@, r.out)]
           /\ lookups' = lookups \o Sent(1, r.sent)
           /\ pc' = IF r.err THEN "fatal" ELSE "done"
           /\ printed' = IF r.err THEN printed ELSE Append(printed, r.out)
           /\ IF r.err
              THEN Fatal(r.out.val, r.domain)
              ELSE /\ exit' = 0
                   /\ UNCHANGED <<diag, failure>>
    /\ UNCHANGED <<inputs, cloudEvent, d, visited, k, s, p, handed, ceCount,
                   callRes, run, prev>>

(***************************************************************************)
(* binding mode: the interpreter calls one Function with its values        *)
(***************************************************************************)

B_Call ==
    /\ mode = "binding"
    /\ pc = "start"
    /\ LET r == Binding(call.op, call.args, gh)
       IN  /\ callRes' = r
           /\ lookups' = lookups \o Sent(0, r.sent)
           /\ pc' = IF r.panic THEN "panic" ELSE "returned"
           /\ exit' = IF r.panic THEN 2 ELSE exit
    /\ UNCHANGED <<inputs, cloudEvent, d, visited, k, s, p, printed, diag, stages,
                   handed, results, ceCount, failure, run, prev>>

(***************************************************************************)
(* the command, run a second time with the same flags against the same     *)
(* host                                                                    *)
(***************************************************************************)

Terminated == pc \in {"done", "fatal"}

\* What a user sees of a run: exit status, diagnostic, output, requests.
Outcome ==
    [exit |-> exit, diag |-> diag, printed |-> printed,
     sent |-> {[api |-> lookups[i].api, args |-> lookups[i].args] :
                 i \in 1..Len(lookups)}]

Rerun ==
    /\ Terminated
    /\ run = 1
    /\ run' = 2
    /\ prev' = Outcome
    /\ pc' = "start"
    /\ cloudEvent' = Nil
    /\ d' = <<>>
    /\ visited' = {}
    /\ k' = 0
    /\ s' = <<>>
    /\ p' = NoAst
    /\ printed' = <<>>
    /\ diag' = NoDiag
    /\ exit' = -1
    /\ stages' = [key \in Keys |-> <<>>]
    /\ handed' = [key \in Keys |-> <<>>]
    /\ results' = [key \in Keys |-> <<>>]
    /\ lookups' = <<>>
    /\ ceCount' = 0
    /\ failure' = "none"
    /\ UNCHANGED <<inputs, callRes>>

Next ==
    \/ T_UnmarshalEvent
    \/ T_UnmarshalTemplate
    \/ \E key \in Keys : T_Range(key)
    \/ T_Parse
    \/ T_Check
    \/ T_Program
    \/ T_Eval
    \/ T_PrintOut
    \/ S_Parse
    \/ S_Check
    \/ S_Program
    \/ S_UnmarshalEvent
    \/ S_Eval
    \/ B_Call
    \/ Rerun

Spec == Init /\ [][Next]_vars

(***************************************************************************)
(* properties                                                              *)
(***************************************************************************)

IsPlaceholder(v) == v.kind = "string" /\ RegexpMatch(v.val)

StageOrder == <<"Parse", "Check", "Program", "Eval">>

AllStagesOk(tr) ==
    /\ Len(tr) = Len(StageOrder)
    /\ \A i \in 1..Len(tr) : tr[i].stage = StageOrder[i] /\ tr[i].ok

\* C1: in template mode a value that is no string, or a string the pattern
\* does not match, is never parsed, checked, compiled or evaluated, sends no
\* request, and is in the mapping and in the printed output as it was read.
C1_NonPlaceholderUntouched ==
    (mode = "template" /\ expr.ok) =>
        \A key \in Keys :
            ~IsPlaceholder(expr.doc[key]) =>
                /\ stages[key] = <<>>
                /\ handed[key] = <<>>
                /\ results[key] = <<>>
                /\ \A i \in 1..Len(lookups) : lookups[i].key # key
                /\ (d # <<>> => d[key] = expr.doc[key])
                /\ (pc = "done" => printed[1][key] = expr.doc[key])

\* C1 witness: a finished expansion that replaced one value and kept a
\* string holding "$" that the pattern does not match.
C1_Witness ==
    /\ mode = "template"
    /\ pc = "done"
    /\ \E key \in Keys :
          /\ expr.doc[key].kind = "string"
          /\ RegexpMatchDollar(expr.doc[key].val)
          /\ ~RegexpMatch(expr.doc[key].val)
          /\ printed[1][key] = expr.doc[key]
    /\ \E key \in Keys : printed[1][key] # expr.doc[key]

\* C2: after a successful expansion every value the pattern matches was
\* evaluated exactly once and holds the native value under the result of
\* that evaluation, its type kept: a bool for types.Bool, a string only for
\* types.String; "$(true)" is the bool true and "$(cat)" the cat string.
C2_RawResultStored ==
    /\ mode = "template" => \A key \in Keys : Len(results[key]) <= 1
    /\ (mode = "template" /\ pc = "done") =>
          \A key \in Keys :
              IsPlaceholder(expr.doc[key]) =>
                  /\ Len(results[key]) = 1
                  /\ Len(handed[key]) = 1
                  /\ d[key].val = results[key][1].val
                  /\ d[key].kind =
                        (CASE results[key][1].kind = "types.Bool" -> "bool"
                           [] results[key][1].kind = "types.String" -> "string"
                           [] results[key][1].kind = "types.Int" -> "int64"
                           [] OTHER -> "map[string]interface{}")
                  /\ printed[1][key] = d[key]
                  /\ (expr.doc[key].val = <<"$", "(", "true", ")">>
                        => d[key] = [kind |-> "bool", val |-> <<"true">>])
                  /\ (expr.doc[key].val = <<"$", "(", "cat", ")">>
                        => d[key] = [kind |-> "string", val |-> <<"<cat emoji>">>])

\* C2 witness: a finished expansion with a bool result beside a string
\* result that itself matches the pattern and stayed as it is.
C2_Witness ==
    /\ mode = "template"
    /\ pc = "done"
    /\ \E key \in Keys : d[key].kind = "bool"
    /\ \E key \in Keys :
          /\ d[key] # expr.doc[key]
          /\ IsPlaceholder(d[key])
          /\ Len(results[key]) = 1

\* C3: the "out:" document is printed only by a run in which every value
\* the pattern matches passed all four stages; once a stage has failed the
\* run is over and nothing was or will be printed.
C3_AllOrNothing ==
    mode = "template" =>
        /\ printed # <<>> =>
              /\ pc = "done"
              /\ \A key \in Keys :
                    IsPlaceholder(expr.doc[key]) => AllStagesOk(stages[key])
        /\ (\E key \in Keys : \E i \in 1..Len(stages[key]) : ~stages[key][i].ok) =>
              /\ pc = "fatal"
              /\ exit = 1
              /\ printed = <<>>

\* C3 witness: a run that failed at a later placeholder after it had
\* replaced an earlier one.
C3_Witness ==
    /\ mode = "template"
    /\ pc = "fatal"
    /\ printed = <<>>
    /\ \E key \in Keys : AllStagesOk(stages[key]) /\ d[key] # expr.doc[key]
    /\ \E key \in Keys : stages[key] # <<>> /\ ~stages[key][Len(stages[key])].ok

\* C4: in both modes the stages of an expression are a prefix of Parse,
\* Check, Program, Eval, each at most once, and only the last stage run
\* can have failed; an expression with a result ran all four.
C4_StagesInOrder ==
    mode \in {"template", "single"} =>
        \A key \in Keys :
            /\ Len(stages[key]) <= Len(StageOrder)
            /\ \A i \in 1..Len(stages[key]) :
                  /\ stages[key][i].stage = StageOrder[i]
                  /\ (i < Len(stages[key]) => stages[key][i].ok)
            /\ (results[key] # <<>> => Len(stages[key]) = Len(StageOrder))
            /\ (pc = "done" /\ stages[key] # <<>> => AllStagesOk(stages[key]))

\* C4 witness: an expression that failed at Check after another ran all
\* four stages.
C4_Witness ==
    /\ mode = "template"
    /\ \E key \in Keys : AllStagesOk(stages[key])
    /\ \E key \in Keys :
          /\ Len(stages[key]) = 2
          /\ stages[key][1].ok
          /\ ~stages[key][2].ok

\* C5: a binding called with a number of values other than 3 returns the
\* error value "invalid args", sends no request and does not panic.
C5_WrongArityIsErrorValue ==
    (mode = "binding" /\ pc # "start" /\ Len(call.args) # 3) =>
        /\ pc = "returned"
        /\ ~callRes.panic
        /\ exit = -1
        /\ callRes.res = [kind |-> "types.Err", val |-> <<"invalid args">>]
        /\ callRes.sent = <<>>
        /\ lookups = <<>>

\* C5 witness: pr returned from a call with four values.
C5_Witness ==
    /\ mode = "binding"
    /\ pc = "returned"
    /\ call.op = "pr"
    /\ Len(call.args) = 4

\* C6: a binding whose lookup fails returns an error value that carries
\* the failure message of the host, after exactly one request; unhandled, it
\* ends the run with a runtime error that carries the same message, exit
\* status 1 and no result printed.
C6_LookupFailureCarriesMessage ==
    /\ (mode = "binding" /\ pc = "returned" /\ Len(call.args) = 3) =>
          /\ Len(lookups) = 1
          /\ (~gh.ok => callRes.res = [kind |-> "types.Err", val |-> gh.msg])
    /\ failure = "external" =>
          /\ pc = "fatal"
          /\ exit = 1
          /\ printed = <<>>
          /\ diag = [label |-> "runtime error", msg |-> gh.msg]
          /\ Len(lookups) = 1

\* C7: every failure ends the run with exit status 1 and a diagnostic whose
\* label belongs to the failing domain alone.
C7_DiagnosticIdentifiesStage ==
    failure # "none" =>
        /\ pc = "fatal"
        /\ exit = 1
        /\ diag.label = DiagLabel(failure)
        /\ \A other \in Domains \ {failure} : DiagLabel(other) # diag.label

\* C8: the text given to Parse is the value without one leading "$(" and
\* one trailing ")".
C8_HandedIsInnerText ==
    mode = "template" =>
        \A key \in Keys :
            \A i \in 1..Len(handed[key]) :
                <<"$", "(">> \o handed[key][i] \o <<")">> = expr.doc[key].val

\* The parts of C9 that do not count the deserializations of a run that
\* stops early.
C9_Common ==
    /\ ceCount <= 1
    /\ (ceCount = 0 => cloudEvent = Nil)
    /\ (ceCount = 1 /\ ceJSON # "malformed" => cloudEvent = JsonUnmarshal(ceJSON).val)
    /\ ceJSON = "malformed" =>
          /\ lookups = <<>>
          /\ printed = <<>>
          /\ \A key \in Keys :
                /\ results[key] = <<>>
                /\ \A i \in 1..Len(stages[key]) : stages[key][i].stage # "Eval"
          /\ (ceCount = 1 => pc = "fatal" /\ exit = 1 /\ failure = "input")

C10_OrderIndependent ==
    (mode = "template" /\ run = 2 /\ Terminated) => Outcome = prev

\* C10, as amended: the two runs end with the same exit status, and when
\* they succeed, with the same output document and the same set of requests.
C10_SuccessOrderIndependent ==
    (mode = "template" /\ run = 2 /\ Terminated) =>
        /\ exit = prev.exit
        /\ (exit = 0 => printed = prev.printed /\ Outcome.sent = prev.sent)

\* C10 witness: two failed runs over one document whose diagnostics differ,
\* so the ranges took different orders.
C10_Witness ==
    /\ mode = "template"
    /\ run = 2
    /\ pc = "fatal"
    /\ prev.exit = 1
    /\ diag # prev.diag
=============================================================================
